---- MODULE Spec2Model ----
(***************************************************************************)
(* uberall Rechnungskontrolle (src/app.py): reconciliation of a billing    *)
(* export against a CRM export.                                            *)
(*                                                                         *)
(* Text is modelled as a sequence of one-character strings, so that        *)
(* str.strip, str.upper, str.lower, str.replace and the substring test     *)
(* `in` are computed character by character as Python computes them.       *)
(* A missing cell (pandas NaN) is the value NaN, which is not a text.      *)
(***************************************************************************)
EXTENDS Integers, Sequences, FiniteSets, TLC

VARIABLES
    pc,            \* position of main() / of the stand-alone call
    uberall_file,  \* the uploaded billing workbook
    crm_file,      \* the uploaded CRM export
    uberall_df,    \* DataAnalyzer.uberall_df (after load / categorize)
    crm_df,        \* DataAnalyzer.crm_df
    row_idx,       \* number of billing rows the loop of line 181 has passed
    results,       \* the dict built by analyze_billing_discrepancies
    issues,        \* DataAnalyzer.issues
    csv_content,   \* lines returned by generate_csv_report
    call,          \* arguments of a stand-alone call of a pure function
    ret            \* its return value

vars == <<pc, uberall_file, crm_file, uberall_df, crm_df, row_idx, results,
          issues, csv_content, call, ret>>

(***************************************************************************)
(* Bounds of the model.                                                    *)
(***************************************************************************)
MaxStatusParts == 2
MaxPlanParts == 2
MaxBillingRows == 2
MaxCrmRows == 2
MaxAnalyzerRows == 3

(***************************************************************************)
(* Python / pandas primitives.                                             *)
(***************************************************************************)
NaN == <<"NaN">>

isna(v) == v = NaN

notna(v) == v # NaN

NAN_STR == <<"n", "a", "n">>

\* str(v): a text is itself, NaN prints as "nan"
str(v) == IF v = NaN THEN NAN_STR ELSE v

\* The alphabet of the model is Latin-1 (U+0000 to U+00FF), each character a
\* one-character string.  The three characters beyond it that str.upper and
\* str.lower reach from Latin-1 are written by their code points.
Y_DIAERESIS_UPPER == "U+0178"

MU_UPPER == "U+039C"

MU_LOWER == "U+03BC"

\* the lower-case letters of Latin-1 whose upper case is one Latin-1 letter
LowerLetters ==
    <<"a", "b", "c", "d", "e", "f", "g", "h", "i", "j", "k", "l", "m", "n",
      "o", "p", "q", "r", "s", "t", "u", "v", "w", "x", "y", "z", "à", "á",
      "â", "ã", "ä", "å", "æ", "ç", "è", "é", "ê", "ë", "ì", "í", "î", "ï",
      "ð", "ñ", "ò", "ó", "ô", "õ", "ö", "ø", "ù", "ú", "û", "ü", "ý", "þ">>

\* their upper-case letters, position by position
UpperLetters ==
    <<"A", "B", "C", "D", "E", "F", "G", "H", "I", "J", "K", "L", "M", "N",
      "O", "P", "Q", "R", "S", "T", "U", "V", "W", "X", "Y", "Z", "À", "Á",
      "Â", "Ã", "Ä", "Å", "Æ", "Ç", "È", "É", "Ê", "Ë", "Ì", "Í", "Î", "Ï",
      "Ð", "Ñ", "Ò", "Ó", "Ô", "Õ", "Ö", "Ø", "Ù", "Ú", "Û", "Ü", "Ý", "Þ">>

LetterIndex(c, letters) == CHOOSE k \in 1..Len(letters) : letters[k] = c

\* str.upper on one character: "ß" becomes "SS", "ÿ" and "µ" leave Latin-1,
\* a character without an upper case is itself
upper_char(c) ==
    IF \E k \in 1..Len(LowerLetters) : LowerLetters[k] = c
    THEN <<UpperLetters[LetterIndex(c, LowerLetters)]>>
    ELSE IF c = "ß" THEN <<"S", "S">>
    ELSE IF c = "ÿ" THEN <<Y_DIAERESIS_UPPER>>
    ELSE IF c = "µ" \/ c = MU_LOWER THEN <<MU_UPPER>>
    ELSE <<c>>

\* str.lower on one character
lower_char(c) ==
    IF \E k \in 1..Len(UpperLetters) : UpperLetters[k] = c
    THEN <<LowerLetters[LetterIndex(c, UpperLetters)]>>
    ELSE IF c = Y_DIAERESIS_UPPER THEN <<"ÿ">>
    ELSE IF c = MU_UPPER THEN <<MU_LOWER>>
    ELSE <<c>>

RECURSIVE upper(_)
upper(s) == IF s = <<>> THEN <<>> ELSE upper_char(Head(s)) \o upper(Tail(s))

RECURSIVE lower(_)
lower(s) == IF s = <<>> THEN <<>> ELSE lower_char(Head(s)) \o lower(Tail(s))

\* str.isspace on the alphabet: TAB, LF, VT (U+000B), FF, CR, U+001C to
\* U+001F, blank, NEL (U+0085) and NO-BREAK SPACE (U+00A0)
WhitespaceChars ==
    {"\t", "\n", "", "\f", "\r", "", "", "", "", " ",
     "", " "}

IsSpace(c) == c \in WhitespaceChars

\* str.strip(): drop leading and trailing whitespace
strip(s) ==
    LET keep == {k \in 1..Len(s) : ~IsSpace(s[k])}
    IN  IF keep = {} THEN <<>>
        ELSE SubSeq(s, CHOOSE k \in keep : \A j \in keep : k <= j,
                       CHOOSE k \in keep : \A j \in keep : k >= j)

\* Python `sub in s` on texts
contains(sub, s) ==
    \E k \in 1..(Len(s) - Len(sub) + 1) : SubSeq(s, k, k + Len(sub) - 1) = sub

\* str.replace(old, new) for a one-character old
RECURSIVE replace(_, _, _)
replace(s, old, new) ==
    IF s = <<>> THEN <<>>
    ELSE (IF Head(s) = old THEN <<new>> ELSE <<Head(s)>>)
         \o replace(Tail(s), old, new)

(***************************************************************************)
(* Literals of src/app.py.                                                 *)
(***************************************************************************)
MSG_LEER ==
    <<"W", "o", "r", "k", "f", "l", "o", "w", "-", "S", "t", "a", "t", "u",
      "s", " ", "i", "s", "t", " ", "l", "e", "e", "r">>

STORNO == <<"S", "T", "O", "R", "N", "O">>

MSG_STORNO ==
    <<"S", "T", "O", "R", "N", "O", "-", "S", "t", "a", "t", "u", "s", " ",
      "s", "o", "l", "l", "t", "e", " ", "n", "i", "c", "h", "t", " ", "v",
      "e", "r", "r", "e", "c", "h", "n", "e", "t", " ", "w", "e", "r", "d",
      "e", "n">>

ACTIVE == <<"A", "C", "T", "I", "V", "E">>

ABGESCHLOSSEN ==
    <<"F", "i", "r", "m", "e", "n", "d", "a", "t", "e", "n", " ", "M", "a",
      "n", "a", "g", "e", "r", " ", "F", "u", "l", "f", "i", "l", "l", "m",
      "e", "n", "t", " ", "a", "b", "g", "e", "s", "c", "h", "l", "o", "s",
      "s", "e", "n", ".">>

GEKUENDIGT == <<"g", "e", "k", "ü", "n", "d", "i", "g", "t">>

OK == <<"O", "K">>

MSG_ACTIVE_GEKUENDIGT ==
    <<"A", "C", "T", "I", "V", "E", " ", "a", "b", "e", "r", " ", "g", "e",
      "k", "ü", "n", "d", "i", "g", "t", " ", "i", "m", " ", "W", "o", "r",
      "k", "f", "l", "o", "w", "-", "S", "t", "a", "t", "u", "s">>

MSG_ACTIVE_OFFEN ==
    <<"A", "C", "T", "I", "V", "E", " ", "a", "b", "e", "r", " ", "n", "i",
      "c", "h", "t", " ", "a", "b", "g", "e", "s", "c", "h", "l", "o", "s",
      "s", "e", "n">>

CANCELLED == <<"C", "A", "N", "C", "E", "L", "L", "E", "D">>

INACTIVE == <<"I", "N", "A", "C", "T", "I", "V", "E">>

MSG_NICHT_GEKUENDIGT ==
    <<" ", "a", "b", "e", "r", " ", "n", "i", "c", "h", "t", " ", "g", "e",
      "k", "ü", "n", "d", "i", "g", "t", " ", "i", "m", " ", "W", "o", "r",
      "k", "f", "l", "o", "w", "-", "S", "t", "a", "t", "u", "s">>

MSG_UNBEKANNT ==
    <<"U", "n", "b", "e", "k", "a", "n", "n", "t", "e", "r", " ", "B", "i",
      "l", "l", "i", "n", "g", "-", "S", "t", "a", "t", "u", "s", ":", " ">>

BASIC == <<"b", "a", "s", "i", "c">>

PLUS == <<"p", "l", "u", "s">>

MANGER_PLUS == <<"m", "a", "n", "g", "e", "r", " ", "p", "l", "u", "s">>

PRO == <<"p", "r", "o">>

FM_BASIC ==
    <<"F", "i", "r", "m", "e", "n", "d", "a", "t", "e", "n", " ", "M", "a",
      "n", "a", "g", "e", "r", " ", "B", "a", "s", "i", "c">>

FM_PLUS ==
    <<"F", "i", "r", "m", "e", "n", "d", "a", "t", "e", "n", " ", "M", "a",
      "n", "a", "g", "e", "r", " ", "P", "l", "u", "s">>

FM_PRO ==
    <<"F", "i", "r", "m", "e", "n", "d", "a", "t", "e", "n", " ", "M", "a",
      "n", "a", "g", "e", "r", " ", "P", "R", "O">>

SONSTIGE == <<"S", "o", "n", "s", "t", "i", "g", "e">>

UNBEKANNT == <<"U", "n", "b", "e", "k", "a", "n", "n", "t">>

PARTNER_DIGITAL ==
    <<"E", "d", "e", "l", "w", "e", "i", "s", "s", " ", "D", "i", "g", "i",
      "t", "a", "l", " ", "G", "m", "b", "H">>

PARTNER_RUSSMEDIA ==
    <<"E", "d", "e", "l", "w", "e", "i", "s", "s", " ", "(", "R", "u", "s",
      "s", "m", "e", "d", "i", "a", ")">>

NICHT_IM_CRM ==
    <<"L", "o", "c", "a", "t", "i", "o", "n", " ", "n", "i", "c", "h", "t",
      " ", "i", "m", " ", "C", "R", "M">>

NICHT_GEFUNDEN ==
    <<"L", "o", "c", "a", "t", "i", "o", "n", " ", "I", "D", " ", "w", "u",
      "r", "d", "e", " ", "i", "m", " ", "C", "R", "M", " ", "n", "i", "c",
      "h", "t", " ", "g", "e", "f", "u", "n", "d", "e", "n">>

NA == <<"N", "/", "A">>

STATUS_PROBLEM ==
    <<"S", "t", "a", "t", "u", "s", "-", "K", "o", "m", "b", "i", "n", "a",
      "t", "i", "o", "n", " ", "P", "r", "o", "b", "l", "e", "m">>

(***************************************************************************)
(* DataAnalyzer.is_status_combination_ok (lines 124-158).                  *)
(***************************************************************************)
\* changed: the STORNO test without .upper()
storno_check_case_sensitive(workflow) == contains(STORNO, workflow)

\* line 136: 'STORNO' in workflow.upper()
storno_check(workflow) == contains(STORNO, upper(workflow))

\* changed: the completion phrase compared without regard to case
abgeschlossen_check_any_case(workflow) ==
    contains(lower(ABGESCHLOSSEN), lower(workflow))

\* line 142: 'Firmendaten Manager Fulfillment abgeschlossen.' in workflow
abgeschlossen_check(workflow) == contains(ABGESCHLOSSEN, workflow)

\* changed: the cancellation marker compared without .lower()
gekuendigt_check_case_sensitive(workflow) == contains(GEKUENDIGT, workflow)

\* lines 143, 153: 'gekündigt' in workflow.lower()
gekuendigt_check(workflow) == contains(GEKUENDIGT, lower(workflow))

is_status_combination_ok(billing_state, workflow_status) ==
    IF isna(workflow_status) THEN <<FALSE, MSG_LEER>>
    ELSE
      LET workflow == strip(str(workflow_status))
          billing == upper(strip(str(billing_state)))
      IN  IF storno_check(workflow) THEN <<FALSE, MSG_STORNO>>
          ELSE IF billing = ACTIVE THEN
                 IF abgeschlossen_check(workflow) THEN
                   IF ~gekuendigt_check(workflow) THEN <<TRUE, OK>>
                   ELSE <<FALSE, MSG_ACTIVE_GEKUENDIGT>>
                 ELSE <<FALSE, MSG_ACTIVE_OFFEN>>
          ELSE IF billing \in {CANCELLED, INACTIVE} THEN
                 IF gekuendigt_check(workflow) THEN <<TRUE, OK>>
                 ELSE <<FALSE, billing \o MSG_NICHT_GEKUENDIGT>>
          ELSE <<FALSE, MSG_UNBEKANNT \o billing>>

(***************************************************************************)
(* FileProcessor.categorize_service_type (lines 98-114).  A row is a       *)
(* function from column names to cells.                                    *)
(***************************************************************************)
\* changed: the rule for "pro" tried first
get_product_type_pro_first(row) ==
    IF "plan" \in DOMAIN row /\ notna(row["plan"]) THEN
      LET plan == lower(str(row["plan"]))
      IN  IF contains(PRO, plan) THEN FM_PRO
          ELSE IF contains(BASIC, plan) THEN FM_BASIC
          ELSE IF contains(PLUS, plan) \/ contains(MANGER_PLUS, plan)
               THEN FM_PLUS
          ELSE SONSTIGE
    ELSE UNBEKANNT

get_product_type(row) ==
    IF "plan" \in DOMAIN row /\ notna(row["plan"]) THEN
      LET plan == lower(str(row["plan"]))
      IN  IF contains(BASIC, plan) THEN FM_BASIC
          ELSE IF contains(PLUS, plan) \/ contains(MANGER_PLUS, plan)
               THEN FM_PLUS
          ELSE IF contains(PRO, plan) THEN FM_PRO
          ELSE SONSTIGE
    ELSE UNBEKANNT

\* line 113: df['Produkttyp'] = df.apply(get_product_type, axis=1)
categorize_service_type(df) ==
    [k \in 1..Len(df) |-> ("Produkttyp" :> get_product_type(df[k])) @@ df[k]]

(***************************************************************************)
(* Inputs of the stand-alone calls: texts put together from parts.         *)
(***************************************************************************)
RECURSIVE Texts(_, _)
Texts(parts, n) ==
    IF n = 0 THEN {<<>>}
    ELSE LET shorter == Texts(parts, n - 1)
         IN  shorter \cup {t \o p : t \in shorter, p \in parts}

\* "ßtorno", which str.upper turns into "SSTORNO"
SHARP_STORNO == <<"ß", "t", "o", "r", "n", "o">>

NBSP == " "

FORM_FEED == "\f"

StatusParts ==
    { STORNO, lower(STORNO), <<"S", "t", "o", "r", "n", "o">>, SHARP_STORNO,
      ABGESCHLOSSEN, lower(ABGESCHLOSSEN),
      SubSeq(ABGESCHLOSSEN, 1, Len(ABGESCHLOSSEN) - 1),
      GEKUENDIGT, upper(GEKUENDIGT), <<"g", "e", "k", "u", "n", "d", "i", "g", "t">>,
      <<" ">>, <<"V", "e", "r", "t", "r", "a", "g">> }

WorkflowStatusInputs == {NaN} \cup Texts(StatusParts, MaxStatusParts)

BillingStateInputs ==
    { NaN, <<>>, ACTIVE, lower(ACTIVE), <<" ">> \o ACTIVE \o <<" ">>,
      CANCELLED, <<"C", "a", "n", "c", "e", "l", "l", "e", "d", "\t">>,
      INACTIVE, <<" ">> \o lower(INACTIVE),
      ACTIVE \o <<NBSP>>, <<FORM_FEED>> \o CANCELLED,
      <<"P", "E", "N", "D", "I", "N", "G">>, <<"c", "a", "f", "é">> }

PlanParts ==
    { BASIC, PLUS, PRO, MANGER_PLUS, upper(BASIC), upper(PRO),
      <<"P", "l", "u", "s">>, <<" ">>, <<"p", "r">>, <<"S", "t", "a", "r", "t">> }

\* a billing row seen by get_product_type: no plan column, or a plan cell
PlanRowInputs ==
    { [name |-> <<"X">>] }
    \cup { [name |-> <<"X">>, plan |-> p] :
             p \in {NaN} \cup Texts(PlanParts, MaxPlanParts) }

Idle ==
    /\ uberall_file = <<>>
    /\ crm_file = <<>>
    /\ uberall_df = <<>>
    /\ crm_df = <<>>
    /\ row_idx = 0
    /\ results = <<>>
    /\ issues = <<>>
    /\ csv_content = <<>>

IdleUnchanged ==
    UNCHANGED <<uberall_file, crm_file, uberall_df, crm_df, row_idx, results,
                issues, csv_content>>

\* a call of is_status_combination_ok on arbitrary arguments
InitStatus ==
    /\ Idle
    /\ pc = "call_status"
    /\ call \in [billing_state : BillingStateInputs,
                 workflow_status : WorkflowStatusInputs]
    /\ ret = <<>>

CallStatus ==
    /\ pc = "call_status"
    /\ ret' = is_status_combination_ok(call.billing_state, call.workflow_status)
    /\ pc' = "returned_status"
    /\ UNCHANGED call
    /\ IdleUnchanged

NextStatus == CallStatus

SpecStatus == InitStatus /\ [][NextStatus]_vars

\* a call of get_product_type on an arbitrary row
InitProduct ==
    /\ Idle
    /\ pc = "call_product"
    /\ call \in [row : PlanRowInputs]
    /\ ret = <<>>

CallProduct ==
    /\ pc = "call_product"
    /\ ret' = get_product_type(call.row)
    /\ pc' = "returned_product"
    /\ UNCHANGED call
    /\ IdleUnchanged

NextProduct == CallProduct

SpecProduct == InitProduct /\ [][NextProduct]_vars

(***************************************************************************)
(* Vocabulary of the properties, stated position by position on the text   *)
(* and not through the operators of the model.                             *)
(***************************************************************************)
\* s holds word at some position, letter for letter
HoldsExact(word, s) ==
    \E k \in 1..(Len(s) - Len(word) + 1) :
        \A j \in 1..Len(word) : s[k + j - 1] = word[j]

\* s holds word at some position, every letter in either case
HoldsAnyCase(word, s) ==
    \E k \in 1..(Len(s) - Len(word) + 1) :
        \A j \in 1..Len(word) :
            s[k + j - 1] \in {lower_char(word[j])[1], upper_char(word[j])[1]}

\* v is a text that reads as word once surrounding whitespace is dropped and
\* case is ignored
ReadsAs(v, word) ==
    /\ v # NaN
    /\ \E k \in 1..Len(v) :
          /\ k + Len(word) - 1 <= Len(v)
          /\ \A j \in 1..(k - 1) : IsSpace(v[j])
          /\ \A j \in 1..Len(word) :
                v[k + j - 1] \in {lower_char(word[j])[1], upper_char(word[j])[1]}
          /\ \A j \in (k + Len(word))..Len(v) : IsSpace(v[j])

\* s with every "ß" written out as "SS", the capital form of the letter
RECURSIVE SharpSWrittenOut(_)
SharpSWrittenOut(s) ==
    IF s = <<>> THEN <<>>
    ELSE (IF Head(s) = "ß" THEN <<"S", "S">> ELSE <<Head(s)>>)
         \o SharpSWrittenOut(Tail(s))

\* s holds STORNO when letter case is ignored: every letter in either case,
\* a "ß" counting as its capital form "SS"
HoldsStorno(s) == HoldsAnyCase(STORNO, SharpSWrittenOut(s))

\* a workflow status that is present, not the empty text, and free of STORNO
PlainStatus(ws) == ws # NaN /\ ws # <<>> /\ ~HoldsStorno(ws)

(***************************************************************************)
(* Properties of is_status_combination_ok, under SpecStatus.               *)
(***************************************************************************)
\* C2: an absent or empty workflow status (NaN or the empty text "") gives
\* (False, "Workflow-Status ist leer") for every billing state.
C2_EmptyStatusIsLeer ==
    (pc = "returned_status"
       /\ (call.workflow_status = NaN \/ call.workflow_status = <<>>))
    => ret = <<FALSE, MSG_LEER>>

\* C3: a non-empty workflow status that holds STORNO in any letter case (a
\* "ß" counting as "SS") gives (False, "STORNO-Status sollte nicht verrechnet
\* werden") for every billing state, whatever else the status holds.
C3_StornoOverrides ==
    (pc = "returned_status"
       /\ call.workflow_status # NaN
       /\ call.workflow_status # <<>>
       /\ HoldsStorno(call.workflow_status))
    => ret = <<FALSE, MSG_STORNO>>

\* C3 witness: ACTIVE, a lower-case storno next to the completion phrase
C3_Witness ==
    /\ pc = "returned_status"
    /\ call.billing_state = ACTIVE
    /\ call.workflow_status = lower(STORNO) \o ABGESCHLOSSEN
    /\ ret = <<FALSE, MSG_STORNO>>

\* C4: for a billing state that reads as ACTIVE and a non-empty status without
\* STORNO (in any letter case, a "ß" counting as "SS", so that the rule of C3
\* does not apply), the verdict is OK exactly when the status holds the exact completion
\* phrase and no "gekündigt" in any case; a missing phrase gives "ACTIVE aber
\* nicht abgeschlossen", the phrase together with "gekündigt" gives "ACTIVE
\* aber gekündigt im Workflow-Status".
C4_ActiveRule ==
    (pc = "returned_status"
       /\ ReadsAs(call.billing_state, ACTIVE)
       /\ PlainStatus(call.workflow_status))
    => LET done == HoldsExact(ABGESCHLOSSEN, call.workflow_status)
           gone == HoldsAnyCase(GEKUENDIGT, call.workflow_status)
       IN  /\ ret[1] <=> (done /\ ~gone)
           /\ (done /\ ~gone) => ret = <<TRUE, OK>>
           /\ ~done => ret = <<FALSE, MSG_ACTIVE_OFFEN>>
           /\ (done /\ gone) => ret = <<FALSE, MSG_ACTIVE_GEKUENDIGT>>

\* C4 witness: " ACTIVE " with the phrase followed by an upper-case GEKÜNDIGT
C4_Witness ==
    /\ pc = "returned_status"
    /\ call.billing_state = <<" ">> \o ACTIVE \o <<" ">>
    /\ call.workflow_status = ABGESCHLOSSEN \o upper(GEKUENDIGT)
    /\ ret = <<FALSE, MSG_ACTIVE_GEKUENDIGT>>

\* C5: for a billing state that reads as CANCELLED or INACTIVE and a non-empty
\* status without STORNO (in any letter case, a "ß" counting as "SS", so that
\* the rule of C3 does not apply), the verdict is OK exactly when the status holds
\* "gekündigt" in any case; otherwise the reason is that state followed by
\* " aber nicht gekündigt im Workflow-Status".
C5_CancelledRule ==
    \A state \in {CANCELLED, INACTIVE} :
        (pc = "returned_status"
           /\ ReadsAs(call.billing_state, state)
           /\ PlainStatus(call.workflow_status))
        => LET gone == HoldsAnyCase(GEKUENDIGT, call.workflow_status)
           IN  /\ ret[1] <=> gone
               /\ gone => ret = <<TRUE, OK>>
               /\ ~gone => ret = <<FALSE, state \o MSG_NICHT_GEKUENDIGT>>

\* C5 witness: " inactive" with a status that only holds the completion phrase
C5_Witness ==
    /\ pc = "returned_status"
    /\ call.billing_state = <<" ">> \o lower(INACTIVE)
    /\ call.workflow_status = ABGESCHLOSSEN
    /\ ret = <<FALSE, INACTIVE \o MSG_NICHT_GEKUENDIGT>>

(***************************************************************************)
(* Properties of get_product_type, under SpecProduct.                      *)
(***************************************************************************)
PlanGiven(row) == "plan" \in DOMAIN row /\ row["plan"] # NaN /\ row["plan"] # <<>>

\* C8: a non-empty plan is categorized by the first rule that matches its
\* lower-cased text, in the order basic, plus, pro; none matching is Sonstige.
C8_FirstMatchWins ==
    (pc = "returned_product" /\ PlanGiven(call.row))
    => LET plan == call.row["plan"]
       IN  ret = IF HoldsAnyCase(BASIC, plan) THEN FM_BASIC
                 ELSE IF HoldsAnyCase(PLUS, plan) THEN FM_PLUS
                 ELSE IF HoldsAnyCase(PRO, plan) THEN FM_PRO
                 ELSE SONSTIGE

\* C8 witness: "probasic" holds both pro and basic and is Basic
C8_Witness ==
    /\ pc = "returned_product"
    /\ PlanGiven(call.row)
    /\ call.row["plan"] = PRO \o BASIC
    /\ ret = FM_BASIC

\* C9: the category is Unbekannt whenever the plan is absent or empty (no
\* column, no value, or the empty text), and Sonstige only for a present,
\* non-empty plan that matches none of basic, plus, pro.
C9_UnbekanntWhenEmpty ==
    pc = "returned_product"
    => /\ ~PlanGiven(call.row) => ret = UNBEKANNT
       /\ ret = SONSTIGE
            => /\ PlanGiven(call.row)
               /\ ~HoldsAnyCase(BASIC, call.row["plan"])
               /\ ~HoldsAnyCase(PLUS, call.row["plan"])
               /\ ~HoldsAnyCase(PRO, call.row["plan"])

(***************************************************************************)
(* Literals of ReportGenerator.generate_csv_report (lines 251-285).        *)
(***************************************************************************)
RPT_TITLE ==
    <<"#", " ", "u", "b", "e", "r", "a", "l", "l", " ", "R", "e", "c", "h",
      "n", "u", "n", "g", "s", "k", "o", "n", "t", "r", "o", "l", "l", "e",
      " ", "-", " ", "B", "e", "r", "i", "c", "h", "t">>

RPT_ERSTELLT ==
    <<"#", " ", "E", "r", "s", "t", "e", "l", "l", "t", " ", "a", "m", ":",
      " ">>

RPT_HASH == <<"#">>

RPT_GESAMT ==
    <<"#", " ", "G", "e", "s", "a", "m", "t", " ", "v", "e", "r", "r", "e",
      "c", "h", "n", "e", "t", " ", "(", "g", "e", "f", "i", "l", "t", "e",
      "r", "t", ")", ":", " ">>

RPT_OK ==
    <<"#", " ", "O", "K", " ", "(", "k", "o", "r", "r", "e", "k", "t", "e",
      " ", "S", "t", "a", "t", "u", "s", "-", "K", "o", "m", "b", "i", "n",
      "a", "t", "i", "o", "n", ")", ":", " ">>

RPT_KONTROLLE ==
    <<"#", " ", "M", "a", "n", "u", "e", "l", "l", "e", " ", "K", "o", "n",
      "t", "r", "o", "l", "l", "e", " ", "n", "ö", "t", "i", "g", ":", " ">>

RPT_RATE ==
    <<"#", " ", "P", "r", "o", "b", "l", "e", "m", "r", "a", "t", "e", ":",
      " ">>

RPT_PRODUKT ==
    <<"#", " ", "P", "r", "o", "d", "u", "k", "t", "t", "y", "p", "-", "B",
      "r", "e", "a", "k", "d", "o", "w", "n", ":">>

RPT_STATE ==
    <<"#", " ", "L", "o", "c", "a", "t", "i", "o", "n", " ", "S", "t", "a",
      "t", "e", "-", "B", "r", "e", "a", "k", "d", "o", "w", "n", ":">>

RPT_TYPEN ==
    <<"#", " ", "P", "r", "o", "b", "l", "e", "m", "e", " ", "n", "a", "c",
      "h", " ", "T", "y", "p", ":">>

CSV_HEADER ==
    <<"L", "o", "c", "a", "t", "i", "o", "n", " ", "I", "D", ",", "L", "o",
      "c", "a", "t", "i", "o", "n", " ", "N", "a", "m", "e", ",", "L", "o",
      "c", "a", "t", "i", "o", "n", " ", "S", "t", "a", "t", "e", ",", "P",
      "r", "o", "b", "l", "e", "m", " ", "T", "y", "p", ",", "P", "r", "o",
      "b", "l", "e", "m", " ", "D", "e", "t", "a", "i", "l", ",", "W", "o",
      "r", "k", "f", "l", "o", "w", " ", "S", "t", "a", "t", "u", "s", ",",
      "P", "r", "o", "j", "e", "k", "t", "n", "a", "m", "e">>

(***************************************************************************)
(* The uploaded tables.  Cells are texts or NaN; pandas reads an empty     *)
(* cell as NaN, so no cell of a loaded table is the empty text.            *)
(***************************************************************************)
L1 == <<"L", "1">>

L1_LOWER == <<"l", "1">>

L9 == <<"L", "9">>

NAME_CAFE == <<"C", "a", "f", "e", ",", " ", "W", "i", "e", "n">>

NAME_BAR == <<"B", "a", "r">>

OTHER_PARTNER == <<"A", "n", "d", "e", "r", "e", " ", "G", "m", "b", "H">>

PLAN_BASIC_PRO == <<"B", "a", "s", "i", "c", " ", "P", "r", "o">>

PLAN_PLUS == <<"u", "b", "e", "r", "a", "l", "l", " ", "p", "l", "u", "s">>

PROJ_1 ==
    <<"P", "r", "o", "j", "e", "k", "t", " ", "1", ",", " ", "n", "e", "u">>

PROJ_2 == <<"P", "r", "o", "j", "e", "k", "t", " ", "2">>

ST_GEKUENDIGT ==
    <<"V", "e", "r", "t", "r", "a", "g", " ", "g", "e", "k", "ü", "n", "d",
      "i", "g", "t">>

ST_STORNO == <<"S", "t", "o", "r", "n", "o", ",", " ", "a", "l", "t">>

STATE_ODD == <<"A", "C", "T", "I", "V", "E", ",", "T", "E", "S", "T">>

TS1 ==
    <<"2", "9", ".", "1", "0", ".", "2", "0", "2", "6", " ", "0", "9", ":",
      "0", "5">>

TS2 ==
    <<"0", "1", ".", "0", "1", ".", "2", "0", "2", "7", " ", "2", "3", ":",
      "5", "9">>

\* datetime.now().strftime('%d.%m.%Y %H:%M'): the clock is an input
Timestamps == {TS1, TS2}

BillingRow(id, partner, state, name, plan) ==
    ("location id" :> id) @@ ("salespartner name" :> partner)
    @@ ("location state" :> state) @@ ("name" :> name) @@ ("plan" :> plan)

CrmRow(id, projektname, status) ==
    ("uberall-Location-ID" :> id) @@ ("Projektname" :> projektname)
    @@ ("Workflow-Status" :> status)

BillingRows ==
    { BillingRow(L1, PARTNER_DIGITAL, ACTIVE, NAME_CAFE, PLAN_BASIC_PRO),
      BillingRow(L9, PARTNER_RUSSMEDIA, CANCELLED, NAME_BAR, NaN),
      BillingRow(NaN, PARTNER_DIGITAL, ACTIVE, NAME_BAR, PLAN_PLUS),
      BillingRow(L1_LOWER, PARTNER_RUSSMEDIA, STATE_ODD, NaN, PRO),
      BillingRow(<<" ">>, PARTNER_DIGITAL, NaN, NAME_BAR, PLAN_PLUS),
      BillingRow(L1, OTHER_PARTNER, lower(INACTIVE), NAME_BAR, NaN) }

CrmRows ==
    { CrmRow(L1, PROJ_1, ABGESCHLOSSEN),
      CrmRow(L1, PROJ_2, ST_GEKUENDIGT),
      CrmRow(L9, NaN, NaN),
      CrmRow(NaN, PROJ_1, ABGESCHLOSSEN),
      CrmRow(<<" ", NBSP>>, PROJ_2, ST_GEKUENDIGT) }

RECURSIVE Tables(_, _)
Tables(rows, n) ==
    IF n = 0 THEN {<<>>}
    ELSE LET shorter == Tables(rows, n - 1)
         IN  shorter \cup {Append(t, r) : t \in shorter, r \in rows}

\* an uploaded file as pandas parses it: its column names and its rows, every
\* row a function on the columns
File(columns, rows) == [readable |-> TRUE, columns |-> columns, rows |-> rows]

\* an upload that pd.read_excel / pd.read_csv cannot parse
Unreadable == [readable |-> FALSE, columns |-> {}, rows |-> <<>>]

uberall_columns ==
    {"location id", "salespartner name", "location state", "name", "plan"}

crm_columns == {"uberall-Location-ID", "Projektname", "Workflow-Status"}

\* the same file with column c left out of the upload
without_column(file, c) ==
    LET cut(row) == [d \in DOMAIN row \ {c} |-> row[d]]
    IN  [readable |-> file.readable,
         columns |-> file.columns \ {c},
         rows |-> [k \in 1..Len(file.rows) |-> cut(file.rows[k])]]

\* a workbook may come without the optional plan column
without_plan(file) == without_column(file, "plan")

(***************************************************************************)
(* FileProcessor.load_uberall_file / load_crm_file.  The empty DataFrame   *)
(* that the loaders return on failure is the table without rows.           *)
(***************************************************************************)
\* line 79
required_columns_uberall ==
    <<"location id", "salespartner name", "location state", "name">>

\* line 55
required_columns_crm == <<"uberall-Location-ID", "Projektname", "Workflow-Status">>

\* lines 56, 80: [col for col in required_columns if col not in df.columns]
missing_columns(required_columns, file) ==
    LET missing(col) == col \notin file.columns
    IN  SelectSeq(required_columns, missing)

\* line 86
relevant_partners == {PARTNER_DIGITAL, PARTNER_RUSSMEDIA}

\* lines 74-95: an unreadable workbook (except branch) and a workbook that
\* lacks a required column give the empty table; otherwise the rows of the
\* relevant sales partners are kept
load_uberall_file(file) ==
    LET relevant(r) == r["salespartner name"] \in relevant_partners
    IN  IF ~file.readable THEN <<>>
        ELSE IF missing_columns(required_columns_uberall, file) # <<>> THEN <<>>
        ELSE SelectSeq(file.rows, relevant)

\* lines 24-69: an unreadable export (except branch) and an export that lacks
\* a required column give the empty table; otherwise the rows whose identifier
\* is missing or blank are dropped
load_crm_file(file) ==
    LET filled(r) == /\ notna(r["uberall-Location-ID"])
                     /\ strip(r["uberall-Location-ID"]) # <<>>
    IN  IF ~file.readable THEN <<>>
        ELSE IF missing_columns(required_columns_crm, file) # <<>> THEN <<>>
        ELSE SelectSeq(file.rows, filled)

(***************************************************************************)
(* DataAnalyzer.analyze_billing_discrepancies (lines 160-240).             *)
(***************************************************************************)
column(df, c) == [k \in 1..Len(df) |-> df[k][c]]

\* distinct values in the order of their first appearance
RECURSIVE unique(_)
unique(s) ==
    IF s = <<>> THEN <<>>
    ELSE LET u == unique(SubSeq(s, 1, Len(s) - 1))
             x == s[Len(s)]
         IN  IF \E k \in 1..Len(u) : u[k] = x THEN u ELSE Append(u, x)

occurrences(s, x) == Cardinality({k \in 1..Len(s) : s[k] = x})

\* changed: the keys are left in the order of their first appearance
value_counts_first_seen(col) ==
    LET vals == SelectSeq(col, notna)
        keys == unique(vals)
    IN  { [p \in 1..Len(keys) |-> <<keys[p], occurrences(vals, keys[p])>>] }

\* Series.value_counts().to_dict(): NaN is left out and the keys are sorted by
\* falling count.  pandas does not fix the order of keys with equal counts
\* (it depends on the sort numpy picks), so every order of them is a possible
\* result.  A dict is the sequence of its <<key, value>> items in insertion
\* order; the operator gives the set of the dicts the call may return.
value_counts(col) ==
    LET vals == SelectSeq(col, notna)
        keys == unique(vals)
        n(k) == occurrences(vals, keys[k])
        orders == {f \in [1..Len(keys) -> 1..Len(keys)] :
                      /\ \A p, q \in 1..Len(keys) : f[p] = f[q] => p = q
                      /\ \A p \in 1..(Len(keys) - 1) : n(f[p]) >= n(f[p + 1])}
    IN  { [p \in 1..Len(keys) |-> <<keys[f[p]], n(f[p])>>] : f \in orders }

\* lines 173, 177: the table has the column; an empty table of the model
\* has no rows to count either way
has_column(df, c) == df # <<>> /\ c \in DOMAIN df[1]

\* lines 173-178: the dicts a breakdown may come out as
breakdown(df, c) == IF has_column(df, c) THEN value_counts(column(df, c))
                    ELSE {<<>>}

None == <<>>

Some(x) == <<x>>

\* changed: identifiers compared without regard to case
find_crm_match_ignore_case(crm, location_id) ==
    LET same(r) == upper(r["uberall-Location-ID"]) = upper(location_id)
    IN  SelectSeq(crm, same)

\* line 190: crm_df[crm_df['uberall-Location-ID'] == location_id]
find_crm_match(crm, location_id) ==
    LET same(r) == r["uberall-Location-ID"] = location_id
    IN  SelectSeq(crm, same)

\* changed: the last matching row is taken
first_crm_row_last(crm_match) == crm_match[Len(crm_match)]

\* line 210: crm_match.iloc[0]
first_crm_row(crm_match) == crm_match[1]

\* lines 182: the identifier of a billing row, '' when the cell is missing
location_id_of(billing_row) ==
    IF notna(billing_row["location id"]) THEN str(billing_row["location id"])
    ELSE <<>>

\* lines 194-204
missing_issue(billing_row) ==
    [ location_id |-> location_id_of(billing_row),
      location_name |-> billing_row["name"],
      location_state |-> billing_row["location state"],
      problem_type |-> NICHT_IM_CRM,
      problem_detail |-> NICHT_GEFUNDEN,
      billing_data |-> billing_row,
      crm_data |-> None,
      workflow_status |-> NA,
      projektname |-> NA ]

\* lines 219-229
status_issue(billing_row, crm_row, reason) ==
    [ location_id |-> location_id_of(billing_row),
      location_name |-> billing_row["name"],
      location_state |-> billing_row["location state"],
      problem_type |-> STATUS_PROBLEM,
      problem_detail |-> reason,
      billing_data |-> billing_row,
      crm_data |-> Some(crm_row),
      workflow_status |-> crm_row["Workflow-Status"],
      projektname |-> crm_row["Projektname"] ]

\* lines 234-236: a dict from problem type to count, in insertion order
RECURSIVE count_issues_by_type(_)
count_issues_by_type(entries) ==
    IF entries = <<>> THEN <<>>
    ELSE LET acc == count_issues_by_type(SubSeq(entries, 1, Len(entries) - 1))
             t == entries[Len(entries)].problem_type
         IN  IF \E k \in 1..Len(acc) : acc[k][1] = t
             THEN [k \in 1..Len(acc) |->
                      IF acc[k][1] = t THEN <<t, acc[k][2] + 1>> ELSE acc[k]]
             ELSE Append(acc, <<t, 1>>)

(***************************************************************************)
(* ReportGenerator.generate_csv_report (lines 246-298).                    *)
(***************************************************************************)
Digits == <<"0", "1", "2", "3", "4", "5", "6", "7", "8", "9">>

\* str(n) / f"{n}" for a natural number
RECURSIVE int_str(_)
int_str(n) ==
    IF n < 10 THEN <<Digits[n + 1]>>
    ELSE int_str(n \div 10) \o <<Digits[(n % 10) + 1]>>

(***************************************************************************)
(* Line 258 computes in IEEE-754 binary64 and line 259 formats the double. *)
(* A significand is a natural number written in limbs of 9 bits, lowest    *)
(* first, which keeps 53-bit values clear of the integers of the model     *)
(* checker; a double is [m |-> significand, e |-> k] and stands for        *)
(* m / 2^k.                                                                *)
(***************************************************************************)
SignificandBits == 53

LimbBits == 9

Limb == 2 ^ LimbBits

\* a * c + carry for a small factor c
RECURSIVE limbs_times(_, _, _)
limbs_times(a, c, carry) ==
    IF a = <<>> THEN (IF carry = 0 THEN <<>> ELSE <<carry>>)
    ELSE LET v == Head(a) * c + carry
         IN  <<v % Limb>> \o limbs_times(Tail(a), c, v \div Limb)

\* bit k of a, the lowest bit being bit 0
limbs_bit(a, k) ==
    LET j == (k \div LimbBits) + 1
    IN  IF j > Len(a) THEN 0 ELSE (a[j] \div (2 ^ (k % LimbBits))) % 2

\* the number of bits of a limb
RECURSIVE bit_length(_)
bit_length(n) == IF n = 0 THEN 0 ELSE 1 + bit_length(n \div 2)

\* the number of bits of a, whose highest limb is not zero
limbs_bit_length(a) ==
    IF a = <<>> THEN 0
    ELSE LimbBits * (Len(a) - 1) + bit_length(a[Len(a)])

\* a without its highest limbs that are zero
RECURSIVE limbs_trim(_)
limbs_trim(a) ==
    IF a # <<>> /\ a[Len(a)] = 0 THEN limbs_trim(SubSeq(a, 1, Len(a) - 1))
    ELSE a

\* a \div 2^n
limbs_shift_right(a, n) ==
    LET whole == n \div LimbBits
        part == n % LimbBits
        limb(j) == IF j > Len(a) THEN 0 ELSE a[j]
    IN  IF whole >= Len(a) THEN <<>>
        ELSE limbs_trim(
               [j \in 1..(Len(a) - whole) |->
                  (limb(whole + j) \div (2 ^ part))
                  + (limb(whole + j + 1) % (2 ^ part)) * (2 ^ (LimbBits - part))])

\* (a + sticky) / 2^n rounded to the nearest natural number, a tie to the even
\* one; sticky tells that a stands for a value slightly above a
round_half_even(a, n, sticky) ==
    LET kept == limbs_shift_right(a, n)
        half == n >= 1 /\ limbs_bit(a, n - 1) = 1
        rest == sticky \/ \E k \in 0..(n - 2) : limbs_bit(a, k) = 1
        up == IF n = 0 THEN FALSE
              ELSE half /\ (rest \/ limbs_bit(a, n) = 1)
    IN  IF up THEN limbs_times(kept, 1, 1) ELSE kept

\* the double nearest to (m + sticky) / 2^e
round_to_double(m, e, sticky) ==
    LET drop == limbs_bit_length(m) - SignificandBits
    IN  IF drop <= 0 THEN [m |-> m, e |-> e]
        ELSE [m |-> round_half_even(m, drop, sticky), e |-> e - drop]

\* n / d rounded up
ceil_div(n, d) == (n + d - 1) \div d

\* long division: how often the dividend is doubled to reach the divisor
first_one(r, total) ==
    CHOOSE k \in 0..22 :
        /\ r >= ceil_div(total, 2 ^ k)
        /\ k > 0 => r < ceil_div(total, 2 ^ (k - 1))

\* the next n limbs of the quotient, lowest first, for a remainder r < total,
\* and the remainder after them
RECURSIVE quotient_limbs(_, _, _)
quotient_limbs(r, total, n) ==
    IF n = 0 THEN << <<>>, r >>
    ELSE LET rest == quotient_limbs((r * Limb) % total, total, n - 1)
         IN  <<Append(rest[1], (r * Limb) \div total), rest[2]>>

\* limbs of the quotient taken after its first bit: 55 bits in all, two more
\* than a significand holds
QuotientLimbs == 6

\* line 258, issues_count / total_billed, for 0 < issues_count <= total:
\* the first bit of the quotient and the limbs after it, rounded to the
\* double; a remainder that is left makes the rounding sticky
float_div(issues_count, total) ==
    LET lead == first_one(issues_count, total)
        q == quotient_limbs(issues_count * (2 ^ lead) - total, total,
                            QuotientLimbs)
    IN  round_to_double(Append(q[1], 1), lead + QuotientLimbs * LimbBits,
                        q[2] # 0)

\* line 258, x * 100
float_mul_100(x) == round_to_double(limbs_times(x.m, 100, 0), x.e, FALSE)

\* the value of a short natural number
RECURSIVE limbs_value(_)
limbs_value(a) == IF a = <<>> THEN 0 ELSE Head(a) + Limb * limbs_value(Tail(a))

\* line 259, f"{y:.1f}": the decimal with one place nearest to the value of
\* the double, a tie to the even digit
format_1f(y) ==
    LET tenths == limbs_value(round_half_even(limbs_times(y.m, 10, 0), y.e, FALSE))
    IN  int_str(tenths \div 10) \o <<".">> \o int_str(tenths % 10)

\* lines 258-259: f"{(issues_count / total_billed) * 100:.1f}", for
\* 0 <= issues_count <= total_billed < 2^22: analyze_billing_discrepancies
\* returns no more issues than rows, and a sheet of a workbook has no more
\* than 1,048,576 rows
format_rate(issues_count, total) ==
    IF issues_count = 0 THEN <<"0", ".", "0">>
    ELSE format_1f(float_mul_100(float_div(issues_count, total)))

\* lines 265-266, 272-273, 279-280: one "# key: count" line per dict item
breakdown_lines(items) ==
    [k \in 1..Len(items) |->
        <<"#", " ">> \o str(items[k][1]) \o <<":", " ">> \o int_str(items[k][2])]

\* lines 263-267, 270-274, 277-281: a section is written for a non-empty dict
section(title, items) ==
    IF items # <<>> THEN <<title>> \o breakdown_lines(items) \o <<RPT_HASH>>
    ELSE <<>>

\* lines 288-296: the export row of one problematic entry
csv_row(issue) ==
    LET location_id == issue.location_id
        location_name == replace(str(issue.location_name), ",", ";")
        location_state == issue.location_state
        problem_type == issue.problem_type
        problem_detail == replace(str(issue.problem_detail), ",", ";")
        workflow_status == replace(str(issue.workflow_status), ",", ";")
        projektname == replace(str(issue.projektname), ",", ";")
    IN  str(location_id) \o <<",">> \o location_name \o <<",">>
        \o str(location_state) \o <<",">> \o str(problem_type) \o <<",">>
        \o problem_detail \o <<",">> \o workflow_status \o <<",">>
        \o projektname

\* '\n'.join(lines)
RECURSIVE join(_)
join(lines) ==
    IF lines = <<>> THEN <<>>
    ELSE IF Len(lines) = 1 THEN lines[1]
    ELSE lines[1] \o <<"\n">> \o join(Tail(lines))

generate_csv_report(res, now) ==
    LET summary ==
            << RPT_TITLE,
               RPT_ERSTELLT \o now,
               RPT_HASH,
               RPT_GESAMT \o int_str(res.total_billed),
               RPT_OK \o int_str(res.ok_count),
               RPT_KONTROLLE \o int_str(res.issues_count) >>
            \o (IF res.total_billed > 0
                THEN << RPT_RATE
                        \o format_rate(res.issues_count, res.total_billed)
                        \o <<"%">> >>
                ELSE <<>>)
            \o <<RPT_HASH>>
        rows == [k \in 1..Len(res.problematic_entries) |->
                    csv_row(res.problematic_entries[k])]
    IN  join(summary
             \o section(RPT_PRODUKT, res.product_breakdown)
             \o section(RPT_STATE, res.location_state_breakdown)
             \o section(RPT_TYPEN, res.issues_by_type)
             \o << <<>>, CSV_HEADER >>
             \o rows)

(***************************************************************************)
(* main(): load both files, analyze, report (lines 477-497, 395).          *)
(***************************************************************************)
\* the workbooks and exports whose required columns are all there
BillingFiles ==
    UNION { {File(uberall_columns, t), without_plan(File(uberall_columns, t))} :
              t \in Tables(BillingRows, MaxBillingRows) }

CrmFiles == { File(crm_columns, t) : t \in Tables(CrmRows, MaxCrmRows) }

\* uploads of at most one row, used next to a failing upload
ShortBillingFiles ==
    { File(uberall_columns, t) : t \in {<<>>} \cup {<<r>> : r \in BillingRows} }

ShortCrmFiles ==
    { File(crm_columns, t) : t \in {<<>>} \cup {<<r>> : r \in CrmRows} }

\* uploads on which a loader fails: unreadable, or a required column missing
FailingBillingFiles ==
    {Unreadable}
    \cup { without_column(f, required_columns_uberall[k]) :
             f \in ShortBillingFiles, k \in 1..Len(required_columns_uberall) }

FailingCrmFiles ==
    {Unreadable}
    \cup { without_column(f, required_columns_crm[k]) :
             f \in ShortCrmFiles, k \in 1..Len(required_columns_crm) }

Init ==
    /\ pc = "load_uberall"
    /\ \/ uberall_file \in BillingFiles /\ crm_file \in CrmFiles
       \/ /\ uberall_file \in FailingBillingFiles
          /\ crm_file \in ShortCrmFiles \cup FailingCrmFiles
       \/ uberall_file \in ShortBillingFiles /\ crm_file \in FailingCrmFiles
    /\ uberall_df = <<>>
    /\ crm_df = <<>>
    /\ row_idx = 0
    /\ results = <<>>
    /\ issues = <<>>
    /\ csv_content = <<>>
    /\ call = <<>>
    /\ ret = <<>>

\* line 477
LoadUberallFile ==
    /\ pc = "load_uberall"
    /\ uberall_df' = load_uberall_file(uberall_file)
    /\ pc' = "load_crm"
    /\ UNCHANGED <<uberall_file, crm_file, crm_df, row_idx, results, issues,
                   csv_content, call, ret>>

\* line 478
LoadCrmFile ==
    /\ pc = "load_crm"
    /\ crm_df' = load_crm_file(crm_file)
    /\ pc' = "check_loaded"
    /\ UNCHANGED <<uberall_file, crm_file, uberall_df, row_idx, results,
                   issues, csv_content, call, ret>>

\* lines 480-482: nothing is analyzed when a table came out empty
CheckLoaded ==
    /\ pc = "check_loaded"
    /\ pc' = IF uberall_df = <<>> \/ crm_df = <<>> THEN "stopped"
             ELSE "categorize"
    /\ UNCHANGED <<uberall_file, crm_file, uberall_df, crm_df, row_idx,
                   results, issues, csv_content, call, ret>>

\* line 485
CategorizeServiceType ==
    /\ pc = "categorize"
    /\ uberall_df' = categorize_service_type(uberall_df)
    /\ pc' = "analyze"
    /\ UNCHANGED <<uberall_file, crm_file, crm_df, row_idx, results, issues,
                   csv_content, call, ret>>

\* lines 496, 162-178: the analyzer is built and the result dict is set up
AnalyzeBegin ==
    /\ pc = "analyze"
    /\ issues' = <<>>
    /\ \E products \in breakdown(uberall_df, "Produkttyp"),
          states \in breakdown(uberall_df, "location state") :
          results' =
            [ total_billed |-> Len(uberall_df),
              ok_count |-> 0,
              issues_count |-> 0,
              issues_by_type |-> <<>>,
              product_breakdown |-> products,
              location_state_breakdown |-> states,
              problematic_entries |-> <<>> ]
    /\ row_idx' = 0
    /\ pc' = "rows"
    /\ UNCHANGED <<uberall_file, crm_file, uberall_df, crm_df, csv_content,
                   call, ret>>

\* lines 181-231: one pass of the loop over the billing rows
AnalyzeRow ==
    /\ pc = "rows"
    /\ row_idx < Len(uberall_df)
    /\ row_idx' = row_idx + 1
    /\ LET billing_row == uberall_df[row_idx + 1]
           location_id == location_id_of(billing_row)
           location_state == billing_row["location state"]
           crm_match == find_crm_match(crm_df, location_id)
       IN  IF location_id = <<>> THEN
             UNCHANGED <<results, issues>>
           ELSE IF crm_match = <<>> THEN
             LET issue == missing_issue(billing_row)
             IN  /\ issues' = Append(issues, issue)
                 /\ results' = [results EXCEPT !.problematic_entries =
                                                  Append(@, issue)]
           ELSE
             LET crm_row == first_crm_row(crm_match)
                 verdict == is_status_combination_ok(
                                location_state, crm_row["Workflow-Status"])
             IN  IF verdict[1] THEN
                   /\ results' = [results EXCEPT !.ok_count = @ + 1]
                   /\ UNCHANGED issues
                 ELSE
                   LET issue == status_issue(billing_row, crm_row, verdict[2])
                   IN  /\ issues' = Append(issues, issue)
                       /\ results' = [results EXCEPT !.problematic_entries =
                                                        Append(@, issue)]
    /\ UNCHANGED <<pc, uberall_file, crm_file, uberall_df, crm_df,
                   csv_content, call, ret>>

\* lines 233-240: the loop is over; issues are counted and the dict returned
AnalyzeEnd ==
    /\ pc = "rows"
    /\ row_idx = Len(uberall_df)
    /\ results' =
         [results EXCEPT
            !.issues_by_type = count_issues_by_type(results.problematic_entries),
            !.issues_count = Len(results.problematic_entries)]
    /\ pc' = "report"
    /\ UNCHANGED <<uberall_file, crm_file, uberall_df, crm_df, row_idx,
                   issues, csv_content, call, ret>>

\* line 395
GenerateCsvReport ==
    /\ pc = "report"
    /\ \E now \in Timestamps : csv_content' = generate_csv_report(results, now)
    /\ pc' = "done"
    /\ UNCHANGED <<uberall_file, crm_file, uberall_df, crm_df, row_idx,
                   results, issues, call, ret>>

Next ==
    \/ LoadUberallFile
    \/ LoadCrmFile
    \/ CheckLoaded
    \/ CategorizeServiceType
    \/ AnalyzeBegin
    \/ AnalyzeRow
    \/ AnalyzeEnd
    \/ GenerateCsvReport

Spec == Init /\ [][Next]_vars

(***************************************************************************)
(* Properties of the analysis and of the export, under Spec.               *)
(***************************************************************************)
\* the billing row the loop has just passed
PassedRow == uberall_df[row_idx]

\* positions of the CRM rows whose identifier equals id, letter for letter
SameId(id) ==
    {k \in 1..Len(crm_df) : crm_df[k]["uberall-Location-ID"] = id}

\* the cell holds an identifier: it is present and not the empty text
HasIdentifier(row) == row["location id"] # NaN /\ row["location id"] # <<>>

\* new is old with exactly one entry added at the end
OneAdded(old, new) ==
    /\ Len(new) = Len(old) + 1
    /\ SubSeq(new, 1, Len(old)) = old

\* C1: when analyze_billing_discrepancies has returned,
\* ok_count + issues_count = total_billed.
C1_CountsAddUp ==
    pc \in {"report", "done"}
    => results.ok_count + results.issues_count = results.total_billed

\* C6: a pass over a billing row with a non-empty identifier that no CRM row
\* carries adds exactly one entry, of type "Location nicht im CRM", without CRM
\* data, with workflow status and project name "N/A", and leaves ok_count.
C6_UnmatchedIsReported ==
    [][ ( /\ pc = "rows"
          /\ row_idx' = row_idx + 1
          /\ HasIdentifier(uberall_df[row_idx + 1])
          /\ SameId(uberall_df[row_idx + 1]["location id"]) = {} )
        => LET old == results.problematic_entries
               new == results'.problematic_entries
           IN  /\ OneAdded(old, new)
               /\ new[Len(new)].location_id
                    = uberall_df[row_idx + 1]["location id"]
               /\ new[Len(new)].problem_type = NICHT_IM_CRM
               /\ new[Len(new)].crm_data = None
               /\ new[Len(new)].workflow_status = NA
               /\ new[Len(new)].projektname = NA
               /\ results'.ok_count = results.ok_count ]_vars

\* C6 witness: "l1" was passed while the CRM only knows "L1"
C6_Witness ==
    /\ pc = "rows"
    /\ row_idx > 0
    /\ PassedRow["location id"] = L1_LOWER
    /\ SameId(L1) # {}
    /\ results.problematic_entries # <<>>
    /\ LET last == results.problematic_entries[Len(results.problematic_entries)]
       IN  /\ last.location_id = L1_LOWER
           /\ last.problem_type = NICHT_IM_CRM
           /\ last.crm_data = None

\* C7: when several CRM rows carry the identifier of a billing row, the pass
\* over it is decided by the first of them in source order alone: its workflow
\* status gives the verdict, and a problem entry reports its status, project
\* name and data.
C7_FirstMatchDecides ==
    [][ ( /\ pc = "rows"
          /\ row_idx' = row_idx + 1
          /\ HasIdentifier(uberall_df[row_idx + 1])
          /\ Cardinality(SameId(uberall_df[row_idx + 1]["location id"])) >= 2 )
        => LET row == uberall_df[row_idx + 1]
               same == SameId(row["location id"])
               first == crm_df[CHOOSE k \in same : \A j \in same : k <= j]
               verdict == is_status_combination_ok(row["location state"],
                                                   first["Workflow-Status"])
               old == results.problematic_entries
               new == results'.problematic_entries
           IN  IF verdict[1]
               THEN /\ results'.ok_count = results.ok_count + 1
                    /\ new = old
               ELSE /\ results'.ok_count = results.ok_count
                    /\ OneAdded(old, new)
                    /\ new[Len(new)].problem_type = STATUS_PROBLEM
                    /\ new[Len(new)].problem_detail = verdict[2]
                    /\ new[Len(new)].workflow_status = first["Workflow-Status"]
                    /\ new[Len(new)].projektname = first["Projektname"]
                    /\ new[Len(new)].crm_data = Some(first) ]_vars

\* C7 witness: L1 is ACTIVE; the first CRM row for L1 is cancelled, a later one
\* is completed, and the entry reports the first
C7_Witness ==
    /\ pc = "rows"
    /\ row_idx > 0
    /\ PassedRow["location id"] = L1
    /\ PassedRow["location state"] = ACTIVE
    /\ Len(crm_df) = 2
    /\ crm_df[1] = CrmRow(L1, PROJ_2, ST_GEKUENDIGT)
    /\ crm_df[2] = CrmRow(L1, PROJ_1, ABGESCHLOSSEN)
    /\ results.problematic_entries # <<>>
    /\ LET last == results.problematic_entries[Len(results.problematic_entries)]
       IN  /\ last.location_id = L1
           /\ last.workflow_status = ST_GEKUENDIGT
           /\ last.projektname = PROJ_2
           /\ last.problem_detail = MSG_ACTIVE_OFFEN

\* the lines of a text
RECURSIVE LinesOf(_)
LinesOf(text) ==
    LET breaks == {k \in 1..Len(text) : text[k] = "\n"}
    IN  IF breaks = {} THEN <<text>>
        ELSE LET b == CHOOSE k \in breaks : \A j \in breaks : k <= j
             IN  <<SubSeq(text, 1, b - 1)>>
                 \o LinesOf(SubSeq(text, b + 1, Len(text)))

\* the lines of the export below its column header
DataRows(text) ==
    LET ls == LinesOf(text)
        heads == {k \in 1..Len(ls) : ls[k] = CSV_HEADER}
        h == CHOOSE k \in heads : \A j \in heads : k <= j
    IN  SubSeq(ls, h + 1, Len(ls))

FieldCount(line) == 1 + Cardinality({k \in 1..Len(line) : line[k] = ","})

\* C10: every data row of the export has exactly seven comma-separated
\* fields, whatever text the seven columns of the entry hold.
C10_SevenFields ==
    pc = "done"
    => \A k \in 1..Len(DataRows(csv_content)) :
           FieldCount(DataRows(csv_content)[k]) = 7

\* the identifier cell is missing, the empty text, or whitespace only
BlankIdentifier(row) ==
    \/ row["location id"] = NaN
    \/ \A k \in 1..Len(row["location id"]) : IsSpace(row["location id"][k])

\* a and b are the same text once surrounding whitespace is dropped
SameTrimmed(a, b) ==
    \E i \in 1..Len(a), j \in 1..Len(b), n \in 1..Len(a) :
        /\ i + n - 1 <= Len(a)
        /\ j + n - 1 <= Len(b)
        /\ ~IsSpace(a[i]) /\ ~IsSpace(a[i + n - 1])
        /\ ~IsSpace(b[j]) /\ ~IsSpace(b[j + n - 1])
        /\ \A k \in 1..Len(a) : (k < i \/ k > i + n - 1) => IsSpace(a[k])
        /\ \A k \in 1..Len(b) : (k < j \/ k > j + n - 1) => IsSpace(b[k])
        /\ \A k \in 0..(n - 1) : a[i + k] = b[j + k]

\* C11: a pass over a billing row whose identifier is empty after trimming
\* (missing, "", or whitespace only) adds no entry and leaves ok_count; a row
\* whose trimmed identifier equals the trimmed identifier of a CRM row is
\* matched, so it is not reported as "Location nicht im CRM".
C11_BlankIdDropped ==
    [][ (pc = "rows" /\ row_idx' = row_idx + 1)
        => LET row == uberall_df[row_idx + 1]
               old == results.problematic_entries
               new == results'.problematic_entries
           IN  /\ BlankIdentifier(row)
                    => /\ new = old
                       /\ results'.ok_count = results.ok_count
               /\ ( /\ ~BlankIdentifier(row)
                    /\ \E k \in 1..Len(crm_df) :
                          SameTrimmed(row["location id"],
                                      crm_df[k]["uberall-Location-ID"]) )
                    => ~( /\ OneAdded(old, new)
                          /\ new[Len(new)].problem_type = NICHT_IM_CRM ) ]_vars

(***************************************************************************)
(* DataAnalyzer built directly on a categorized billing table and a CRM    *)
(* table (lines 119-122), then analyze_billing_discrepancies.              *)
(***************************************************************************)
AnalyzerBillingRows ==
    { BillingRow(id, PARTNER_DIGITAL, state, NAME_BAR, plan) :
        id \in {L1, L9}, state \in {ACTIVE, CANCELLED, NaN},
        plan \in {PLAN_BASIC_PRO, NaN} }

AnalyzerCrmTables ==
    { <<CrmRow(L1, PROJ_1, ABGESCHLOSSEN)>>,
      <<CrmRow(L9, PROJ_2, ST_GEKUENDIGT), CrmRow(L1, PROJ_1, ST_STORNO)>> }

InitAnalyzer ==
    /\ pc = "analyze"
    /\ uberall_file = <<>>
    /\ crm_file = <<>>
    /\ \E t \in Tables(AnalyzerBillingRows, MaxAnalyzerRows) :
          uberall_df = categorize_service_type(t)
    /\ crm_df \in AnalyzerCrmTables
    /\ row_idx = 0
    /\ results = <<>>
    /\ issues = <<>>
    /\ csv_content = <<>>
    /\ call = <<>>
    /\ ret = <<>>

NextAnalyzer == AnalyzeBegin \/ AnalyzeRow \/ AnalyzeEnd

SpecAnalyzer == InitAnalyzer /\ [][NextAnalyzer]_vars

(***************************************************************************)
(* Properties of the breakdowns, under SpecAnalyzer.                       *)
(***************************************************************************)
\* the values of column c that are present, over every billing row
PresentValues(c) ==
    {uberall_df[k][c] : k \in {j \in 1..Len(uberall_df) : uberall_df[j][c] # NaN}}

\* the number of billing rows, flagged or not, whose column c holds v
RowsWith(c, v) == Cardinality({k \in 1..Len(uberall_df) : uberall_df[k][c] = v})

\* the first billing row whose column c holds v
FirstRowWith(c, v) ==
    CHOOSE k \in 1..Len(uberall_df) :
        /\ uberall_df[k][c] = v
        /\ \A j \in 1..(k - 1) : uberall_df[j][c] # v

\* items is a frequency count of the present values of column c over all rows
IsFrequencyCount(items, c) ==
    /\ \A p, q \in 1..Len(items) : items[p][1] = items[q][1] => p = q
    /\ {items[p][1] : p \in 1..Len(items)} = PresentValues(c)
    /\ \A p \in 1..Len(items) : items[p][2] = RowsWith(c, items[p][1])

\* the keys of items stand in the order of their first appearance in column c
InFirstSeenOrder(items, c) ==
    \A p, q \in 1..Len(items) :
        p < q => FirstRowWith(c, items[p][1]) < FirstRowWith(c, items[q][1])

\* the counts of items never rise from one key to the next
InFallingOrder(items) ==
    \A p \in 1..(Len(items) - 1) : items[p][2] >= items[p + 1][2]

\* no two keys of items are counted equally often, so the dict does not
\* depend on how pandas orders equal counts
NoEqualCounts(items) ==
    \A p, q \in 1..Len(items) : items[p][2] = items[q][2] => p = q

\* C12 as stated: both breakdowns are frequency counts over all billing rows
\* and their keys stand in the order of first appearance.  The claim is read on
\* the runs whose breakdowns have no two equal counts.
C12_FirstSeenOrder ==
    ( /\ pc \in {"rows", "report"}
      /\ NoEqualCounts(results.product_breakdown)
      /\ NoEqualCounts(results.location_state_breakdown) )
    => /\ IsFrequencyCount(results.product_breakdown, "Produkttyp")
       /\ IsFrequencyCount(results.location_state_breakdown, "location state")
       /\ InFirstSeenOrder(results.product_breakdown, "Produkttyp")
       /\ InFirstSeenOrder(results.location_state_breakdown, "location state")

\* C12 amended: both breakdowns are frequency counts of the present values
\* over all billing rows, flagged or not, and their keys stand in the order of
\* falling count.
C12_FallingCountOrder ==
    pc \in {"rows", "report"}
    => /\ IsFrequencyCount(results.product_breakdown, "Produkttyp")
       /\ IsFrequencyCount(results.location_state_breakdown, "location state")
       /\ InFallingOrder(results.product_breakdown)
       /\ InFallingOrder(results.location_state_breakdown)

\* C12 witness: CANCELLED comes first but ACTIVE is counted twice and leads;
\* one of the rows is not flagged and one state is missing
C12_Witness ==
    /\ pc = "report"
    /\ Len(uberall_df) = 3
    /\ uberall_df[1]["location state"] = CANCELLED
    /\ uberall_df[2]["location state"] = ACTIVE
    /\ uberall_df[3]["location state"] = ACTIVE
    /\ results.ok_count > 0
    /\ results.issues_count > 0
    /\ results.location_state_breakdown = <<<<ACTIVE, 2>>, <<CANCELLED, 1>>>>

====
